---- MODULE Spec2Model ----
(***************************************************************************)
(* Model of the AI-EQ voice analysis program (analyze_voice.py):           *)
(* analyze_audio_characteristics -> categorize_voice ->                    *)
(* generate_eq_recommendations, and main, which runs them in sequence.     *)
(*                                                                         *)
(* Units.  Unrounded means (f0_mean, mean spectral centroid) are integers  *)
(* in milli-Hz.  Values stored in the analysis dict with round(x, 1) are   *)
(* integers in deci-Hz (tenths of a Hz).  The unrounded mean zero-crossing *)
(* rate is an integer in millionths.  Band frequencies (frequency_hz) are  *)
(* whole Hz, as round() returns them.                                      *)
(***************************************************************************)
EXTENDS Integers, Sequences, FiniteSets, TLC

VARIABLES
    pc,                  \* where main (or a direct call) stands
    waveform,            \* the audio file main was given
    locals,              \* analyze_audio_characteristics' unrounded means
    audio_analysis,      \* main's audio_analysis
    accent_analysis,     \* main's accent_analysis
    eq_recommendations,  \* main's eq_recommendations
    output_file,         \* the result JSON on disk
    error,               \* the exception that ended main
    call,                \* a direct call's function and arguments
    ret,                 \* a direct call's return value
    history              \* the calls one process has completed, in order

vars == <<pc, waveform, locals, audio_analysis, accent_analysis,
          eq_recommendations, output_file, error, call, ret, history>>

\* Python's None, for a variable that otherwise holds a dict.
None == [none |-> TRUE]

\* No exception raised.
NoError == "none"

(***************************************************************************)
(* Arithmetic helpers                                                      *)
(***************************************************************************)

\* n Hz in milli-Hz.
Hz(n) == n * 1000

\* n Hz in deci-Hz.
DeciHz(n) == n * 10

\* Python's max() on two numbers.
Max(a, b) == IF a >= b THEN a ELSE b

\* Python's round(): the integer nearest to n/d, a tie going to the even
\* neighbour (n >= 0, d > 0).
RoundHalfEven(n, d) ==
    LET q == n \div d
        r == n % d
    IN  IF 2 * r < d THEN q
        ELSE IF 2 * r > d THEN q + 1
        ELSE IF q % 2 = 0 THEN q ELSE q + 1

\* round(x, 1) of an unrounded mean: milli-Hz in, deci-Hz out.
Round1(milli) == RoundHalfEven(milli, 100)

(***************************************************************************)
(* categorize_voice                                                        *)
(***************************************************************************)

\* Faulty variant: 130 Hz itself counts as bass.
VoiceTypeBoundaryLow(f0_mean) ==
    IF f0_mean <= Hz(130) THEN "bass"
    ELSE IF f0_mean < Hz(180) THEN (IF f0_mean < Hz(155) THEN "baritone" ELSE "tenor")
    ELSE IF f0_mean < Hz(250) THEN (IF f0_mean < Hz(220) THEN "alto" ELSE "mezzo-soprano")
    ELSE "soprano"

\* voice_type of categorize_voice; f0_mean in milli-Hz.
VoiceType(f0_mean) ==
    IF f0_mean < Hz(130) THEN "bass"
    ELSE IF f0_mean < Hz(180) THEN (IF f0_mean < Hz(155) THEN "baritone" ELSE "tenor")
    ELSE IF f0_mean < Hz(250) THEN (IF f0_mean < Hz(220) THEN "alto" ELSE "mezzo-soprano")
    ELSE "soprano"

\* voice_range of categorize_voice; f0_mean in milli-Hz.
VoiceRange(f0_mean) ==
    IF f0_mean < Hz(130) THEN "low"
    ELSE IF f0_mean < Hz(180) THEN "low-mid"
    ELSE IF f0_mean < Hz(250) THEN "mid"
    ELSE "high"

\* Faulty variant: a boundary value falls in the lower bucket.
BrightnessBoundaryLow(centroid_mean) ==
    IF centroid_mean <= Hz(1500) THEN "dark/warm"
    ELSE IF centroid_mean <= Hz(2500) THEN "balanced"
    ELSE IF centroid_mean <= Hz(3500) THEN "bright"
    ELSE "very bright/sibilant"

\* brightness of categorize_voice; centroid_mean in milli-Hz.
Brightness(centroid_mean) ==
    IF centroid_mean < Hz(1500) THEN "dark/warm"
    ELSE IF centroid_mean < Hz(2500) THEN "balanced"
    ELSE IF centroid_mean < Hz(3500) THEN "bright"
    ELSE "very bright/sibilant"

\* zcr_mean is accepted and not read.
categorize_voice(f0_mean, centroid_mean, zcr_mean) ==
    [voice_type  |-> VoiceType(f0_mean),
     voice_range |-> VoiceRange(f0_mean),
     brightness  |-> Brightness(centroid_mean)]

\* breathiness_indicator of the analysis dict; zcr_mean in millionths.
\* Faulty variant: a mean of exactly 0.05 counts as moderate.
BreathinessIndicatorInclusive(zcr_mean) ==
    IF zcr_mean > 100000 THEN "high"
    ELSE IF zcr_mean >= 50000 THEN "moderate"
    ELSE "low"

BreathinessIndicator(zcr_mean) ==
    IF zcr_mean > 100000 THEN "high"
    ELSE IF zcr_mean > 50000 THEN "moderate"
    ELSE "low"

(***************************************************************************)
(* Strings that the program inspects character by character (the accent)   *)
(* are sequences of one-character strings.                                 *)
(***************************************************************************)

Capitals == <<"A","B","C","D","E","F","G","H","I","J","K","L","M",
              "N","O","P","Q","R","S","T","U","V","W","X","Y","Z">>

Letters  == <<"a","b","c","d","e","f","g","h","i","j","k","l","m",
              "n","o","p","q","r","s","t","u","v","w","x","y","z">>

\* str.lower() on one character.
LowerChar(c) ==
    IF \E k \in 1..Len(Capitals) : Capitals[k] = c
    THEN Letters[CHOOSE k \in 1..Len(Capitals) : Capitals[k] = c]
    ELSE c

\* str.upper() on one character.
UpperChar(c) ==
    IF \E k \in 1..Len(Letters) : Letters[k] = c
    THEN Capitals[CHOOSE k \in 1..Len(Letters) : Letters[k] = c]
    ELSE c

\* Faulty variant: the accent is compared as given.
str_lower_identity(s) == s

\* str.lower()
str_lower(s) == [i \in 1..Len(s) |-> LowerChar(s[i])]

\* Python's  sub in s  on strings.
Contains(sub, s) ==
    \E i \in 0..(Len(s) - Len(sub)) : SubSeq(s, i + 1, i + Len(sub)) = sub

kw_irish    == <<"i","r","i","s","h">>
kw_celtic   == <<"c","e","l","t","i","c">>
kw_british  == <<"b","r","i","t","i","s","h">>
kw_english  == <<"e","n","g","l","i","s","h">>
kw_american == <<"a","m","e","r","i","c","a","n">>

IrishTips ==
    <<"Irish accents often have melodic qualities - preserve natural intonation by avoiding heavy compression",
      "The characteristic 'lilt' sits in the 1-3 kHz range - be careful not to over-boost this region">>

BritishTips ==
    <<"RP/British accents may benefit from slight presence boost for clarity">>

AmericanTips ==
    <<"American accents often have strong 'r' sounds - watch the 2-3 kHz region">>

\* accent_analysis.get("primary_accent", "")
GetPrimaryAccent(accent) ==
    IF "primary_accent" \in DOMAIN accent THEN accent.primary_accent ELSE <<>>

\* Faulty variant: three independent ifs.
AccentTipsAllGroups(accent) ==
    LET a == str_lower(GetPrimaryAccent(accent))
    IN  (IF Contains(kw_irish, a) \/ Contains(kw_celtic, a) THEN IrishTips ELSE <<>>)
        \o (IF Contains(kw_british, a) \/ Contains(kw_english, a) THEN BritishTips ELSE <<>>)
        \o (IF Contains(kw_american, a) THEN AmericanTips ELSE <<>>)

\* The accent-specific tips: an if / elif / elif chain on the lowered accent.
AccentTips(accent) ==
    LET a == str_lower(GetPrimaryAccent(accent))
    IN  IF Contains(kw_irish, a) \/ Contains(kw_celtic, a) THEN IrishTips
        ELSE IF Contains(kw_british, a) \/ Contains(kw_english, a) THEN BritishTips
        ELSE IF Contains(kw_american, a) THEN AmericanTips
        ELSE <<>>

ProcessingSuggestions ==
    <<"Apply subtle compression (2:1 to 4:1 ratio) for consistent levels",
      "Use a noise gate if there's background noise between phrases",
      "Consider gentle saturation/warmth for added character">>

(***************************************************************************)
(* generate_eq_recommendations.  st is the pair of lists the function      *)
(* grows, [recommendations, eq_bands]; each rule appends to both.  f0 is   *)
(* the dict's mean_hz, in deci-Hz.  Q values are in tenths.                *)
(***************************************************************************)

\* Faulty variant: the two lists live outside the function (a module-level
\* list, or a mutable default argument) and keep what the last call appended.
EmptyPlanKept ==
    IF "eq_bands" \in DOMAIN ret
    THEN [recommendations |-> ret.recommendations, eq_bands |-> ret.eq_bands]
    ELSE [recommendations |-> <<>>, eq_bands |-> <<>>]

EmptyPlan == [recommendations |-> <<>>, eq_bands |-> <<>>]

Emit(st, rec, band) ==
    [recommendations |-> Append(st.recommendations, rec),
     eq_bands        |-> Append(st.eq_bands, band)]

\* hp_freq = max(60, f0 * 0.5), then round(hp_freq): whole Hz.
\* Faulty variant: the floor of the cutoff is 70 Hz.
HighPassHzFloor70(f0) == RoundHalfEven(Max(DeciHz(70) * 2, f0), 20)

HighPassHz(f0) == RoundHalfEven(Max(DeciHz(60) * 2, f0), 20)

\* Faulty variant: the high-pass band is given a gain_db like the others.
HighPassBandWithGain(f0) ==
    [type         |-> "high-pass",
     frequency_hz |-> RoundHalfEven(Max(DeciHz(60) * 2, f0), 20),
     gain_db      |-> "N/A",
     description  |-> "Remove sub-bass rumble"]

HighPassBand(f0) ==
    [type         |-> "high-pass",
     frequency_hz |-> HighPassHz(f0),
     description  |-> "Remove sub-bass rumble"]

WarmthBand(f0) ==
    [type         |-> "bell",
     frequency_hz |-> RoundHalfEven(f0, 10),
     gain_db      |-> "+1 to +2",
     q            |-> 15,
     description  |-> "Add warmth and body"]

\* Faulty variant: the fundamental boost is not nested under  f0 > 0.
LowEndRulesUnnested(st, f0, voice_range) ==
    LET st1 == IF f0 > 0
               THEN Emit(st,
                      "Apply high-pass filter at " \o ToString(HighPassHz(f0))
                        \o " Hz to remove rumble without affecting voice fundamentals",
                      HighPassBand(f0))
               ELSE st
    IN  IF voice_range \in {"low", "low-mid"}
        THEN Emit(st1,
               "Consider subtle boost (+1-2 dB) around " \o ToString(RoundHalfEven(f0, 10))
                 \o " Hz to add warmth and body",
               WarmthBand(f0))
        ELSE st1

\* Faulty variant: the guard  f0 > 0  is missing.
LowEndRulesAtZero(st, f0, voice_range) ==
    LET st1 == Emit(st,
                 "Apply high-pass filter at " \o ToString(HighPassHz(Max(f0, 0)))
                   \o " Hz to remove rumble without affecting voice fundamentals",
                 HighPassBand(Max(f0, 0)))
    IN  IF voice_range \in {"low", "low-mid"}
        THEN Emit(st1,
               "Consider subtle boost (+1-2 dB) around " \o ToString(RoundHalfEven(Max(f0, 0), 10))
                 \o " Hz to add warmth and body",
               WarmthBand(Max(f0, 0)))
        ELSE st1

\* Low-end recommendations: the high-pass, and nested under it the
\* fundamental boost.
LowEndRules(st, f0, voice_range) ==
    IF f0 > 0
    THEN LET st1 == Emit(st,
                      "Apply high-pass filter at " \o ToString(HighPassHz(f0))
                        \o " Hz to remove rumble without affecting voice fundamentals",
                      HighPassBand(f0))
         IN  IF voice_range \in {"low", "low-mid"}
             THEN Emit(st1,
                    "Consider subtle boost (+1-2 dB) around " \o ToString(RoundHalfEven(f0, 10))
                      \o " Hz to add warmth and body",
                    WarmthBand(f0))
             ELSE st1
    ELSE st

\* presence_freq = 2500 if f0 < 200 else 3000
PresenceFreq(f0) == IF f0 < DeciHz(200) THEN 2500 ELSE 3000

PresenceBand(f0) ==
    [type         |-> "bell",
     frequency_hz |-> PresenceFreq(f0),
     gain_db      |-> "+2 to +3",
     q            |-> 10,
     description  |-> "Enhance presence and clarity"]

\* Mid-range presence
PresenceRule(st, f0) ==
    Emit(st,
      "Boost presence around " \o ToString(PresenceFreq(f0))
        \o " Hz (+2-3 dB) for clarity and intelligibility",
      PresenceBand(f0))

SibilanceBand ==
    [type         |-> "bell",
     frequency_hz |-> 6500,
     gain_db      |-> "-2 to -4",
     q            |-> 20,
     description  |-> "Control sibilance"]

AirBand ==
    [type         |-> "high-shelf",
     frequency_hz |-> 10000,
     gain_db      |-> "+2 to +3",
     description  |-> "Add air and sparkle"]

\* Faulty variant: "bright" is cut too.
BrightnessRuleBrightCut(st, brightness) ==
    IF brightness \in {"very bright/sibilant", "bright"}
    THEN Emit(st,
           "Apply de-esser or reduce 5-8 kHz range (-2-4 dB) to control sibilance",
           SibilanceBand)
    ELSE IF brightness = "dark/warm"
    THEN Emit(st,
           "Add air and sparkle with a gentle high shelf boost (+2-3 dB) above 10 kHz",
           AirBand)
    ELSE st

\* Brightness control: if / elif on voice_chars["brightness"].
BrightnessRule(st, brightness) ==
    IF brightness = "very bright/sibilant"
    THEN Emit(st,
           "Apply de-esser or reduce 5-8 kHz range (-2-4 dB) to control sibilance",
           SibilanceBand)
    ELSE IF brightness = "dark/warm"
    THEN Emit(st,
           "Add air and sparkle with a gentle high shelf boost (+2-3 dB) above 10 kHz",
           AirBand)
    ELSE st

BreathinessBand ==
    [type         |-> "bell",
     frequency_hz |-> 5000,
     gain_db      |-> "-1 to -2",
     q            |-> 15,
     description  |-> "Control breathiness (optional)"]

\* Breathiness handling
\* Faulty variant: the rule appends its recommendation and no band.
BreathinessRuleNoBand(st, breathiness) ==
    IF breathiness = "high"
    THEN [recommendations |-> Append(st.recommendations,
            "Consider reducing 4-6 kHz slightly (-1-2 dB) to manage breathiness, or embrace it for intimacy"),
          eq_bands |-> st.eq_bands]
    ELSE st

BreathinessRule(st, breathiness) ==
    IF breathiness = "high"
    THEN Emit(st,
           "Consider reducing 4-6 kHz slightly (-1-2 dB) to manage breathiness, or embrace it for intimacy",
           BreathinessBand)
    ELSE st

MudBand ==
    [type         |-> "bell",
     frequency_hz |-> 300,
     gain_db      |-> "-1 to -3",
     q            |-> 10,
     description  |-> "Reduce muddiness (if needed)"]

\* Mud reduction
MudRule(st) ==
    Emit(st,
      "Cut 200-400 Hz range slightly (-1-3 dB) if voice sounds muddy or boxy",
      MudBand)

\* Faulty variant: mud reduction runs first.
BandRulesMudFirst(aa) ==
    LET f0   == aa.fundamental_frequency.mean_hz
        vc   == aa.voice_characteristics
        s0   == MudRule(EmptyPlan)
        s1   == LowEndRules(s0, f0, vc.voice_range)
        s2   == PresenceRule(s1, f0)
        s3   == BrightnessRule(s2, vc.brightness)
    IN  BreathinessRule(s3, aa.voice_quality.breathiness_indicator)

\* The two lists after all six band rules, in the order the code runs them.
BandRules(aa) ==
    LET f0   == aa.fundamental_frequency.mean_hz
        vc   == aa.voice_characteristics
        s1   == LowEndRules(EmptyPlan, f0, vc.voice_range)
        s2   == PresenceRule(s1, f0)
        s3   == BrightnessRule(s2, vc.brightness)
        s4   == BreathinessRule(s3, aa.voice_quality.breathiness_indicator)
    IN  MudRule(s4)

generate_eq_recommendations(aa, accent) ==
    LET st == BandRules(aa)
        vc == aa.voice_characteristics
    IN  [summary |-> "Voice profile: " \o vc.voice_type \o " with "
                       \o vc.brightness \o " tonal quality",
         recommendations        |-> st.recommendations,
         eq_bands               |-> st.eq_bands,
         accent_specific_tips   |-> AccentTips(accent),
         processing_suggestions |-> ProcessingSuggestions]

(***************************************************************************)
(* Inputs                                                                  *)
(***************************************************************************)

\* How many 0.04 Hz steps each side of an anchor pitch the sampled means go,
\* and how many 0.1 Hz steps each side the sampled dict values go.
NearSteps == 1

\* The pitch tracker's search band: fmin = note_to_hz('C2'),
\* fmax = note_to_hz('C7'), in milli-Hz.
pyin_fmin == 65406

pyin_fmax == 2093005

PitchAnchors == {66, 110, 121, 123, 130, 155, 180, 200, 220, 250, 300}

\* Unrounded voiced means (milli-Hz) the extractor can compute: a mean of
\* values inside the search band lies inside it.  None of these sits on a
\* x.x5 tie of round(x, 1).
RawPitches ==
    {p \in {Hz(a) + 40 * k : a \in PitchAnchors, k \in (0 - NearSteps)..NearSteps}
           \cup {Hz(a) + d : a \in PitchAnchors, d \in {-1, 1}}
           \cup {pyin_fmin} :
        pyin_fmin <= p /\ p <= pyin_fmax}

\* Mean spectral centroids (milli-Hz) and mean zero-crossing rates
\* (millionths) around the thresholds.
RawCentroids ==
    {0, Hz(1500) - 1, Hz(1500), Hz(2500) - 1, Hz(2500), Hz(3500) - 1, Hz(3500), Hz(8000)}

RawZcrs == {30000, 50000, 50001, 100000, 100001}

PipelineCentroids == {Hz(1500) - 1, Hz(1500), Hz(2500), Hz(3500)}

PipelineZcrs == {49999, 50000, 50001, 100000, 100001}

\* Arguments for a direct call of categorize_voice: any number is accepted.
ClassifierPitches == RawPitches \cup {0 - Hz(50), -1, 0, 1, Hz(65)}

\* mean_hz values (deci-Hz) for a direct call of generate_eq_recommendations:
\* round(f0_mean, 1) is never negative.  1105 and 1115 sit on a tie of
\* round().
EnginePitches ==
    {DeciHz(a) + d : a \in PitchAnchors, d \in (0 - NearSteps)..NearSteps}
    \cup {0, 1, 1105, 1115}

VoiceTypeRanges ==
    {<<"bass", "low">>, <<"baritone", "low-mid">>, <<"tenor", "low-mid">>,
     <<"alto", "mid">>, <<"mezzo-soprano", "mid">>, <<"soprano", "high">>}

Brightnesses == {"dark/warm", "balanced", "bright", "very bright/sibilant"}

Breathinesses == {"high", "moderate", "low"}

\* Every way of capitalising "irish".
IrishCasings ==
    {[i \in 1..Len(kw_irish) |-> IF i \in U THEN UpperChar(kw_irish[i]) ELSE kw_irish[i]] :
        U \in SUBSET (1..Len(kw_irish))}

NamedAccents ==
    {
      <<"I","r","i","s","h"," ","E","n","g","l","i","s","h">>,   \* "Irish English"
      <<"I","R","I","S","H">>,   \* "IRISH"
      <<"H","i","b","e","r","n","o","-","I","r","i","s","h">>,   \* "Hiberno-Irish"
      <<"C","e","l","t","i","c">>,   \* "Celtic"
      <<"C","E","L","T","I","C">>,   \* "CELTIC"
      <<"B","r","i","t","i","s","h">>,   \* "British"
      <<"E","n","g","l","i","s","h">>,   \* "English"
      <<"R","e","c","e","i","v","e","d"," ","P","r","o","n","u","n","c","i","a","t","i","o","n"," ","(","B","R","I","T","I","S","H",")">>,   \* "Received Pronunciation (BRITISH)"
      <<"A","m","e","r","i","c","a","n">>,   \* "American"
      <<"G","e","n","e","r","a","l"," ","A","m","e","r","i","c","a","n"," ","E","n","g","l","i","s","h">>,   \* "General American English"
      <<"B","r","i","t","i","s","h"," ","A","m","e","r","i","c","a","n">>,   \* "British American"
      <<"A","n","g","l","o","-","I","r","i","s","h"," ","A","m","e","r","i","c","a","n">>,   \* "Anglo-Irish American"
      <<"A","u","s","t","r","a","l","i","a","n">>,   \* "Australian"
      <<"S","c","o","t","t","i","s","h">>,   \* "Scottish"
      <<>>    \* "" (empty string)
    }

Accents == NamedAccents \cup IrishCasings

\* What the accent service's JSON can decode to: the documented record, or
\* one lacking a key that main or the engine reads.
AccentRecords ==
    {[primary_accent |-> a, confidence |-> "high"] : a \in Accents}
    \cup {[confidence |-> "high"], [primary_accent |-> <<"I","r","i","s","h">>]}

\* The analysis dict, restricted to the keys the later stages read.
AnalysisDict(mean_hz, centroid_mean_hz, breathiness, voice_characteristics) ==
    [fundamental_frequency    |-> [mean_hz |-> mean_hz],
     spectral_characteristics |-> [centroid_mean_hz |-> centroid_mean_hz],
     voice_quality            |-> [breathiness_indicator |-> breathiness],
     voice_characteristics    |-> voice_characteristics]

\* A centroid_mean_hz (deci-Hz) that goes with a brightness label.
CentroidFor(br) ==
    CASE br = "dark/warm" -> DeciHz(1200)
      [] br = "balanced"  -> DeciHz(2000)
      [] br = "bright"    -> DeciHz(3000)
      [] OTHER            -> DeciHz(4000)

\* Any dict a caller may hand to generate_eq_recommendations: every
\* combination of mean pitch, voice type and range, brightness and
\* breathiness.
EngineProfiles ==
    {AnalysisDict(f, CentroidFor(br), b,
                  [voice_type |-> tr[1], voice_range |-> tr[2], brightness |-> br]) :
        f \in EnginePitches, b \in Breathinesses, tr \in VoiceTypeRanges, br \in Brightnesses}

\* An audio file as librosa.load decodes it: its sample count and sample
\* rate.  One sound file, one with no sample, two with a rate <= 0.
Waveforms ==
    {[n_samples |-> 44100, sample_rate |-> 22050],
     [n_samples |-> 0,     sample_rate |-> 22050],
     [n_samples |-> 44100, sample_rate |-> 0],
     [n_samples |-> 44100, sample_rate |-> -1]}

InvalidWaveform(w) == w.n_samples = 0 \/ w.sample_rate <= 0

(***************************************************************************)
(* main: the stages in sequence.  An exception in a stage is not caught    *)
(* anywhere, so it ends the run.                                           *)
(***************************************************************************)

Init ==
    /\ pc = "start"
    /\ waveform \in Waveforms \cup {None}
    /\ locals = None
    /\ audio_analysis = None
    /\ accent_analysis = None
    /\ eq_recommendations = None
    /\ output_file = None
    /\ error = NoError
    /\ call = None
    /\ ret = None
    /\ history = <<>>

\* JSON null where a string is expected: no string equals it (a string is a
\* tuple of single characters).
JsonNull == <<"null">>

\* A reply of the model whose primary_accent is null.
NullAccentRecord == [primary_accent |-> JsonNull, confidence |-> "high"]

Raise(exc) ==
    /\ pc' = "failed"
    /\ error' = exc

\* main up to step 1: the audio path must exist, else sys.exit(1).
CheckPath ==
    /\ pc = "start"
    /\ IF waveform = None
       THEN /\ pc' = "exited"
            /\ error' = "File not found"
       ELSE /\ pc' = "audio"
            /\ UNCHANGED error
    /\ UNCHANGED <<waveform, locals, audio_analysis, accent_analysis,
                   eq_recommendations, output_file, call, ret, history>>

\* The dict analyze_audio_characteristics returns for the given means.
analyze_audio_characteristics(f0_mean, centroid_mean, zcr_mean) ==
    AnalysisDict(Round1(f0_mean), Round1(centroid_mean),
                 BreathinessIndicator(zcr_mean),
                 categorize_voice(f0_mean, centroid_mean, zcr_mean))

\* Step 1 returns.  The function checks nothing about y or sr itself, so
\* whether a file with no sample or a rate <= 0 gets this far is up to the
\* library calls: both outcomes are kept (this action and
\* AnalyzeAudioRaises).  Such a file has no voiced frame, and with no
\* voiced frame the pitch aggregates are 0.0.
AnalyzeAudio ==
    /\ pc = "audio"
    /\ \E voiced \in BOOLEAN, p \in RawPitches, c \in PipelineCentroids, z \in PipelineZcrs :
          LET f0_mean == IF voiced /\ ~InvalidWaveform(waveform) THEN p ELSE 0
          IN  /\ locals' = [f0_mean |-> f0_mean, centroid_mean |-> c, zcr_mean |-> z]
              /\ audio_analysis' = analyze_audio_characteristics(f0_mean, c, z)
    /\ pc' = "accent"
    /\ UNCHANGED <<waveform, accent_analysis, eq_recommendations, output_file,
                   error, call, ret, history>>

\* Step 1 raises: whatever the audio or plotting library raises on the file.
AnalyzeAudioRaises ==
    /\ pc = "audio"
    /\ Raise("LibraryError")
    /\ UNCHANGED <<waveform, locals, audio_analysis, accent_analysis,
                   eq_recommendations, output_file, call, ret, history>>

\* Step 2 returns the decoded JSON; main then prints two of its keys.
AnalyzeAccent ==
    /\ pc = "accent"
    /\ \E rec \in AccentRecords \cup {NullAccentRecord} :
          /\ accent_analysis' = rec
          /\ IF {"primary_accent", "confidence"} \subseteq DOMAIN rec
             THEN pc' = "eq" /\ UNCHANGED error
             ELSE Raise("KeyError")
    /\ UNCHANGED <<waveform, locals, audio_analysis, eq_recommendations,
                   output_file, call, ret, history>>

\* Step 2 raises: the API call fails or its reply is not JSON.
AnalyzeAccentRaises ==
    /\ pc = "accent"
    /\ \E exc \in {"APIError", "JSONDecodeError"} : Raise(exc)
    /\ UNCHANGED <<waveform, locals, audio_analysis, accent_analysis,
                   eq_recommendations, output_file, call, ret, history>>

\* Faulty variant: step 3 does not wait for step 2's result.
GenerateEqEarly ==
    /\ pc \in {"accent", "eq"}
    /\ eq_recommendations' = generate_eq_recommendations(audio_analysis, accent_analysis)
    /\ pc' = "write"
    /\ UNCHANGED <<waveform, locals, audio_analysis, accent_analysis,
                   output_file, error, call, ret, history>>

\* Step 3.  A null primary_accent has no lower(): line 285 raises.
GenerateEq ==
    /\ pc = "eq"
    /\ IF accent_analysis.primary_accent = JsonNull
       THEN Raise("AttributeError") /\ UNCHANGED eq_recommendations
       ELSE /\ eq_recommendations' =
                  generate_eq_recommendations(audio_analysis, accent_analysis)
            /\ pc' = "write"
            /\ UNCHANGED error
    /\ UNCHANGED <<waveform, locals, audio_analysis, accent_analysis,
                   output_file, call, ret, history>>

\* json.dump of the compiled result.
WriteJson ==
    /\ pc = "write"
    /\ output_file' = [audio_analysis     |-> audio_analysis,
                       accent_analysis    |-> accent_analysis,
                       eq_recommendations |-> eq_recommendations]
    /\ pc' = "done"
    /\ UNCHANGED <<waveform, locals, audio_analysis, accent_analysis,
                   eq_recommendations, error, call, ret, history>>

\* open(output_file, "w") fails.
WriteJsonRaises ==
    /\ pc = "write"
    /\ Raise("OSError")
    /\ UNCHANGED <<waveform, locals, audio_analysis, accent_analysis,
                   eq_recommendations, output_file, call, ret, history>>

Next ==
    \/ CheckPath
    \/ AnalyzeAudioRaises
    \/ AnalyzeAudio
    \/ AnalyzeAccent
    \/ AnalyzeAccentRaises
    \/ GenerateEq
    \/ WriteJson
    \/ WriteJsonRaises

Spec == Init /\ [][Next]_vars

(***************************************************************************)
(* Direct calls of the two pure functions, on any arguments.               *)
(***************************************************************************)

CallArgs ==
    {[fn |-> "categorize_voice", f0_mean |-> f, centroid_mean |-> c, zcr_mean |-> z] :
        f \in ClassifierPitches, c \in RawCentroids, z \in RawZcrs}
    \cup
    {[fn |-> "generate_eq_recommendations", audio_analysis |-> aa, accent_analysis |-> ac] :
        aa \in EngineProfiles, ac \in AccentRecords}

InitCall ==
    /\ pc = "call"
    /\ call \in CallArgs
    /\ ret = None
    /\ waveform = None
    /\ locals = None
    /\ audio_analysis = None
    /\ accent_analysis = None
    /\ eq_recommendations = None
    /\ output_file = None
    /\ error = NoError
    /\ history = <<>>

CallCategorizeVoice ==
    /\ pc = "call"
    /\ call.fn = "categorize_voice"
    /\ ret' = categorize_voice(call.f0_mean, call.centroid_mean, call.zcr_mean)
    /\ pc' = "returned"
    /\ UNCHANGED <<waveform, locals, audio_analysis, accent_analysis,
                   eq_recommendations, output_file, error, call, history>>

CallGenerateEq ==
    /\ pc = "call"
    /\ call.fn = "generate_eq_recommendations"
    /\ ret' = generate_eq_recommendations(call.audio_analysis, call.accent_analysis)
    /\ pc' = "returned"
    /\ UNCHANGED <<waveform, locals, audio_analysis, accent_analysis,
                   eq_recommendations, output_file, error, call, history>>

NextCall == CallCategorizeVoice \/ CallGenerateEq

SpecCall == InitCall /\ [][NextCall]_vars

(***************************************************************************)
(* One process calling generate_eq_recommendations several times.  The     *)
(* function reads no module-level name and has no default argument: what   *)
(* one call leaves behind for the next is only what the interpreter keeps, *)
(* and the lists of lines 208-209 and 285 are made anew by each call.      *)
(***************************************************************************)

MaxCalls == 3

RepeatProfiles ==
    {AnalysisDict(DeciHz(110), CentroidFor("dark/warm"), "low",
                  [voice_type |-> "bass", voice_range |-> "low", brightness |-> "dark/warm"]),
     AnalysisDict(DeciHz(110), CentroidFor("dark/warm"), "high",
                  [voice_type |-> "bass", voice_range |-> "low", brightness |-> "dark/warm"]),
     AnalysisDict(DeciHz(220), CentroidFor("very bright/sibilant"), "high",
                  [voice_type |-> "mezzo-soprano", voice_range |-> "mid",
                   brightness |-> "very bright/sibilant"]),
     AnalysisDict(0, CentroidFor("balanced"), "moderate",
                  [voice_type |-> "bass", voice_range |-> "low", brightness |-> "balanced"])}

RepeatAccents ==
    {[primary_accent |-> <<"I", "r", "i", "s", "h">>, confidence |-> "high"],
     [primary_accent |-> <<"S", "c", "o", "t", "t", "i", "s", "h">>, confidence |-> "high"]}

InitRepeat ==
    /\ pc = "idle"
    /\ call = None
    /\ ret = None
    /\ history = <<>>
    /\ waveform = None
    /\ locals = None
    /\ audio_analysis = None
    /\ accent_analysis = None
    /\ eq_recommendations = None
    /\ output_file = None
    /\ error = NoError

\* One more call, on any arguments, after the calls made so far.
CallAgain ==
    /\ pc = "idle"
    /\ Len(history) < MaxCalls
    /\ \E aa \in RepeatProfiles, ac \in RepeatAccents :
          /\ call' = [fn |-> "generate_eq_recommendations",
                      audio_analysis |-> aa, accent_analysis |-> ac]
          /\ ret' = generate_eq_recommendations(aa, ac)
          /\ history' = Append(history, [call |-> call', ret |-> ret'])
    /\ UNCHANGED <<pc, waveform, locals, audio_analysis, accent_analysis,
                   eq_recommendations, output_file, error>>

NextRepeat == CallAgain

SpecRepeat == InitRepeat /\ [][NextRepeat]_vars

(***************************************************************************)
(* Vocabulary of the properties: the bands as the specification describes  *)
(* them, recognised by their fields.                                       *)
(***************************************************************************)

Has(b, field, value) == field \in DOMAIN b /\ b[field] = value

IsHighPass(b) == Has(b, "type", "high-pass")

IsWarmthBell(b) ==
    Has(b, "type", "bell") /\ Has(b, "gain_db", "+1 to +2") /\ Has(b, "q", 15)

IsPresenceBell(b) ==
    Has(b, "type", "bell") /\ Has(b, "gain_db", "+2 to +3") /\ Has(b, "q", 10)

IsSibilanceCut(b) == Has(b, "type", "bell") /\ Has(b, "frequency_hz", 6500)
                     /\ Has(b, "gain_db", "-2 to -4")

IsAirShelf(b) == Has(b, "type", "high-shelf") /\ Has(b, "frequency_hz", 10000)

IsBreathinessBell(b) ==
    Has(b, "type", "bell") /\ Has(b, "frequency_hz", 5000)
    /\ Has(b, "gain_db", "-1 to -2") /\ Has(b, "q", 15)

IsMudBell(b) ==
    Has(b, "type", "bell") /\ Has(b, "frequency_hz", 300)
    /\ Has(b, "gain_db", "-1 to -3") /\ Has(b, "q", 10)

\* The positions of the bands of one kind in a list of bands.
HighPassAt(bands)    == {i \in DOMAIN bands : IsHighPass(bands[i])}
WarmthAt(bands)      == {i \in DOMAIN bands : IsWarmthBell(bands[i])}
PresenceAt(bands)    == {i \in DOMAIN bands : IsPresenceBell(bands[i])}
SibilanceAt(bands)   == {i \in DOMAIN bands : IsSibilanceCut(bands[i])}
AirAt(bands)         == {i \in DOMAIN bands : IsAirShelf(bands[i])}
BreathinessAt(bands) == {i \in DOMAIN bands : IsBreathinessBell(bands[i])}
MudAt(bands)         == {i \in DOMAIN bands : IsMudBell(bands[i])}

\* A direct call of fn has returned.
Returned(fn) == pc = "returned" /\ call.fn = fn

\* main holds the plan of step 3.
PlanMade == pc \in {"write", "done"} \/ (pc = "failed" /\ error = "OSError")

(***************************************************************************)
(* C1  categorize_voice maps every mean pitch, zero and negative values    *)
(* included, to exactly one (voice_type, voice_range) pair, the one of the *)
(* half-open table  <130 bass/low, 130..<155 baritone/low-mid,             *)
(* 155..<180 tenor/low-mid, 180..<220 alto/mid, 220..<250                  *)
(* mezzo-soprano/mid, >=250 soprano/high; a boundary value belongs to the  *)
(* higher bucket.                                                          *)
(***************************************************************************)

\* The table's rows: lower bound (Hz, inclusive; open below when "lo" is
\* absent), upper bound (Hz, exclusive; open above when "hi" is absent).
C1_Table ==
    {[hi |-> 130, voice_type |-> "bass", voice_range |-> "low"],
     [lo |-> 130, hi |-> 155, voice_type |-> "baritone", voice_range |-> "low-mid"],
     [lo |-> 155, hi |-> 180, voice_type |-> "tenor", voice_range |-> "low-mid"],
     [lo |-> 180, hi |-> 220, voice_type |-> "alto", voice_range |-> "mid"],
     [lo |-> 220, hi |-> 250, voice_type |-> "mezzo-soprano", voice_range |-> "mid"],
     [lo |-> 250, voice_type |-> "soprano", voice_range |-> "high"]}

C1_InRow(f0_mean, row) ==
    /\ ("lo" \in DOMAIN row => Hz(row.lo) <= f0_mean)
    /\ ("hi" \in DOMAIN row => f0_mean < Hz(row.hi))

C1_VoiceTable ==
    Returned("categorize_voice") =>
        LET rows == {row \in C1_Table : C1_InRow(call.f0_mean, row)}
        IN  /\ Cardinality(rows) = 1
            /\ \A row \in rows :
                  /\ ret.voice_type = row.voice_type
                  /\ ret.voice_range = row.voice_range

C1_Witness ==
    /\ Returned("categorize_voice")
    /\ call.f0_mean = Hz(130)
    /\ ret.voice_type = "baritone"
    /\ ret.voice_range = "low-mid"

(***************************************************************************)
(* C2  With a mean pitch of 0 (no voiced frame), whatever the brightness,  *)
(* breathiness and accent, the plan holds neither the high-pass band nor   *)
(* the fundamental-warmth bell, and still holds the presence bell, the     *)
(* 300 Hz mud-reduction bell and the three generic processing suggestions. *)
(***************************************************************************)

C2_ZeroPitchPlan ==
    (Returned("generate_eq_recommendations")
        /\ call.audio_analysis.fundamental_frequency.mean_hz = 0) =>
        /\ HighPassAt(ret.eq_bands) = {}
        /\ WarmthAt(ret.eq_bands) = {}
        /\ PresenceAt(ret.eq_bands) # {}
        /\ MudAt(ret.eq_bands) # {}
        /\ Len(ret.processing_suggestions) = 3
        /\ ret.processing_suggestions[1]
             = "Apply subtle compression (2:1 to 4:1 ratio) for consistent levels"
        /\ ret.processing_suggestions[2]
             = "Use a noise gate if there's background noise between phrases"
        /\ ret.processing_suggestions[3]
             = "Consider gentle saturation/warmth for added character"

C2_Witness ==
    /\ Returned("generate_eq_recommendations")
    /\ call.audio_analysis.fundamental_frequency.mean_hz = 0
    /\ call.audio_analysis.voice_characteristics.voice_range = "low"
    /\ call.audio_analysis.voice_quality.breathiness_indicator = "high"
    /\ Len(ret.eq_bands) = 4

(***************************************************************************)
(* C3  For every profile the extractor produces, the high-pass band is in  *)
(* eq_bands exactly when the recording's mean pitch is above 0, and its    *)
(* cutoff is max(60, 0.5 x mean pitch) Hz, the mean pitch being the value  *)
(* the classifier was given.  The cutoff is compared in whole Hz, as the   *)
(* band carries it: the statement here is no stronger than the claim.      *)
(***************************************************************************)

C3_HighPassFromClassifierPitch ==
    PlanMade =>
        LET bands == eq_recommendations.eq_bands
        IN  /\ (HighPassAt(bands) # {}) <=> (locals.f0_mean > 0)
            /\ \A i \in HighPassAt(bands) :
                  \* |frequency_hz - max(60, f0_mean / 2)| <= 0.5 Hz, doubled,
                  \* in milli-Hz
                  LET exact2 == Max(Hz(60) * 2, locals.f0_mean)
                      got2   == Hz(bands[i].frequency_hz) * 2
                  IN  got2 - exact2 <= Hz(1) /\ exact2 - got2 <= Hz(1)

(***************************************************************************)
(* C4  As claimed: for every input to generate_eq_recommendations, the     *)
(* fundamental-warmth bell (centre = mean pitch, gain "+1 to +2", Q 1.5)   *)
(* is in eq_bands if and only if voice_range is low or low-mid.  The       *)
(* centre is compared in whole Hz, as the band carries it: the statement   *)
(* here is no stronger than the claim.                                     *)
(***************************************************************************)

\* b's centre is the dict's mean pitch f0 (deci-Hz) to the nearest whole Hz.
C4_CentredOn(b, f0) ==
    /\ DeciHz(b.frequency_hz) - f0 <= 5
    /\ f0 - DeciHz(b.frequency_hz) <= 5

C4_WarmthIffLowRange ==
    Returned("generate_eq_recommendations") =>
        LET f0 == call.audio_analysis.fundamental_frequency.mean_hz
            vr == call.audio_analysis.voice_characteristics.voice_range
        IN  /\ (WarmthAt(ret.eq_bands) # {}) <=> (vr \in {"low", "low-mid"})
            /\ \A i \in WarmthAt(ret.eq_bands) : C4_CentredOn(ret.eq_bands[i], f0)

(***************************************************************************)
(* C4, amended: the fundamental-warmth bell is in eq_bands if and only if  *)
(* voice_range is low or low-mid AND the mean pitch is above 0; it then    *)
(* occurs once, with gain "+1 to +2", Q 1.5 and the mean pitch rounded to  *)
(* the nearest whole Hz as its centre.                                     *)
(***************************************************************************)

C4_WarmthIffLowRangeAndVoiced ==
    Returned("generate_eq_recommendations") =>
        LET f0 == call.audio_analysis.fundamental_frequency.mean_hz
            vr == call.audio_analysis.voice_characteristics.voice_range
        IN  /\ (WarmthAt(ret.eq_bands) # {}) <=> (vr \in {"low", "low-mid"} /\ f0 > 0)
            /\ Cardinality(WarmthAt(ret.eq_bands)) <= 1
            /\ \A i \in WarmthAt(ret.eq_bands) : C4_CentredOn(ret.eq_bands[i], f0)

\* A low voice_range with no pitch: no warmth bell.
C4_Witness ==
    /\ Returned("generate_eq_recommendations")
    /\ call.audio_analysis.fundamental_frequency.mean_hz = 0
    /\ call.audio_analysis.voice_characteristics.voice_range = "low"
    /\ WarmthAt(ret.eq_bands) = {}
    /\ call.audio_analysis.voice_characteristics.brightness = "balanced"

(***************************************************************************)
(* C5  For every input, eq_bands holds exactly one presence bell (gain     *)
(* "+2 to +3", Q 1.0); its centre is 2500 Hz when the recording's mean     *)
(* pitch is below 200 Hz and 3000 Hz otherwise, the pitch compared being   *)
(* the one the classifier was given.                                       *)
(***************************************************************************)

C5_PresenceFromClassifierPitch ==
    PlanMade =>
        LET bands == eq_recommendations.eq_bands
        IN  /\ Cardinality(PresenceAt(bands)) = 1
            /\ \A i \in PresenceAt(bands) :
                  bands[i].frequency_hz
                      = (IF locals.f0_mean < Hz(200) THEN 2500 ELSE 3000)

(***************************************************************************)
(* C6  eq_bands never holds both the 6500 Hz sibilance cut and the         *)
(* 10000 Hz high shelf: the cut is there exactly when brightness is        *)
(* "very bright/sibilant", the shelf exactly when it is "dark/warm", and   *)
(* neither when it is "balanced" or "bright".                              *)
(***************************************************************************)

C6_BrightnessExclusive ==
    Returned("generate_eq_recommendations") =>
        LET br == call.audio_analysis.voice_characteristics.brightness
        IN  /\ ~(SibilanceAt(ret.eq_bands) # {} /\ AirAt(ret.eq_bands) # {})
            /\ (SibilanceAt(ret.eq_bands) # {}) <=> (br = "very bright/sibilant")
            /\ (AirAt(ret.eq_bands) # {}) <=> (br = "dark/warm")
            /\ br \in {"balanced", "bright"} =>
                  (SibilanceAt(ret.eq_bands) = {} /\ AirAt(ret.eq_bands) = {})

C6_Witness ==
    /\ Returned("generate_eq_recommendations")
    /\ call.audio_analysis.voice_characteristics.brightness = "very bright/sibilant"
    /\ SibilanceAt(ret.eq_bands) # {}
    /\ AirAt(ret.eq_bands) = {}

(***************************************************************************)
(* C7  For every combination of mean pitch, voice_range, brightness and    *)
(* breathiness, the bands of eq_bands come in the fixed rule order         *)
(* high-pass, fundamental-warmth bell, presence bell, brightness band,     *)
(* breathiness bell, mud-reduction bell; an untriggered rule leaves no     *)
(* band and no band comes twice.                                           *)
(***************************************************************************)

\* The rule a band belongs to, 0 when it belongs to none.
C7_RuleOf(b) ==
    IF IsHighPass(b) THEN 1
    ELSE IF IsWarmthBell(b) THEN 2
    ELSE IF IsPresenceBell(b) THEN 3
    ELSE IF IsSibilanceCut(b) \/ IsAirShelf(b) THEN 4
    ELSE IF IsBreathinessBell(b) THEN 5
    ELSE IF IsMudBell(b) THEN 6
    ELSE 0

C7_RuleOrder ==
    Returned("generate_eq_recommendations") =>
        LET bands == ret.eq_bands
        IN  /\ \A i \in DOMAIN bands : C7_RuleOf(bands[i]) # 0
            /\ \A i, j \in DOMAIN bands :
                  i < j => C7_RuleOf(bands[i]) < C7_RuleOf(bands[j])

\* All six rules fire.
C7_Witness ==
    /\ Returned("generate_eq_recommendations")
    /\ Len(ret.eq_bands) = 6
    /\ IsHighPass(ret.eq_bands[1])
    /\ IsMudBell(ret.eq_bands[6])

(***************************************************************************)
(* Accent keywords as the specification tables them.                       *)
(***************************************************************************)

\* kw occurs in s in some letter case.
OccursAnyCase(kw, s) ==
    \E i \in 0..(Len(s) - Len(kw)) :
        \A j \in 1..Len(kw) : s[i + j] \in {kw[j], UpperChar(kw[j])}

KeywordGroups ==
    <<[keywords |-> {kw_irish, kw_celtic},    tips |-> IrishTips],
      [keywords |-> {kw_british, kw_english}, tips |-> BritishTips],
      [keywords |-> {kw_american},            tips |-> AmericanTips]>>

\* The groups (table positions) with a keyword occurring in s.
MatchingGroups(s) ==
    {g \in DOMAIN KeywordGroups : \E kw \in KeywordGroups[g].keywords : OccursAnyCase(kw, s)}

\* The tips of the groups gs, concatenated in table order.
RECURSIVE TipsOfGroups(_, _)
TipsOfGroups(gs, g) ==
    IF g > Len(KeywordGroups) THEN <<>>
    ELSE (IF g \in gs THEN KeywordGroups[g].tips ELSE <<>>) \o TipsOfGroups(gs, g + 1)

\* The accent string of a direct call ("" when the key is missing).
CalledAccent ==
    IF "primary_accent" \in DOMAIN call.accent_analysis
    THEN call.accent_analysis.primary_accent
    ELSE <<>>

(***************************************************************************)
(* C8  As claimed: accent matching is non-exclusive; when primary_accent   *)
(* contains keywords of more than one group, accent_specific_tips holds    *)
(* the tips of every matching group, in keyword-table order.               *)
(***************************************************************************)

C9_CaseInsensitiveSubstring ==
    Returned("generate_eq_recommendations") =>
        /\ (OccursAnyCase(kw_irish, CalledAccent) \/ OccursAnyCase(kw_celtic, CalledAccent))
              => ret.accent_specific_tips = IrishTips
        /\ MatchingGroups(CalledAccent) = {} => ret.accent_specific_tips = <<>>
        /\ "primary_accent" \notin DOMAIN call.accent_analysis
              => ret.accent_specific_tips = <<>>

\* A mixed-case keyword inside a longer accent string.
C9_Witness ==
    /\ Returned("generate_eq_recommendations")
    /\ CalledAccent \notin IrishCasings
    /\ \E c \in IrishCasings :
          /\ c # kw_irish
          /\ Contains(c, CalledAccent)
          /\ ~Contains(kw_irish, CalledAccent)
    /\ ret.accent_specific_tips = IrishTips

(***************************************************************************)
(* C10  Extraction fails with InvalidInputError when the waveform has zero *)
(* samples or a sample rate <= 0; no aggregate profile, not even a partial *)
(* one, is then produced and no later stage runs.                          *)
(***************************************************************************)

C10_InvalidInputRejected ==
    ("n_samples" \in DOMAIN waveform /\ InvalidWaveform(waveform)
        /\ pc \notin {"start", "audio"}) =>
        /\ pc = "failed"
        /\ error = "InvalidInputError"
        /\ audio_analysis = None
        /\ accent_analysis = None
        /\ eq_recommendations = None
        /\ output_file = None

(***************************************************************************)
(* C11                                                                     *)
(***************************************************************************)

C12_Table ==
    {[hi |-> 1500, brightness |-> "dark/warm"],
     [lo |-> 1500, hi |-> 2500, brightness |-> "balanced"],
     [lo |-> 2500, hi |-> 3500, brightness |-> "bright"],
     [lo |-> 3500, brightness |-> "very bright/sibilant"]}

C12_InRow(centroid_mean, row) ==
    /\ ("lo" \in DOMAIN row => Hz(row.lo) <= centroid_mean)
    /\ ("hi" \in DOMAIN row => centroid_mean < Hz(row.hi))

\* C12: for every mean spectral centroid, categorize_voice returns the one
\* brightness label of the half-open table: below 1500 Hz dark/warm, 1500 to
\* below 2500 balanced, 2500 to below 3500 bright, 3500 and above very
\* bright/sibilant; a boundary value belongs to the higher bucket.
C12_BrightnessTable ==
    Returned("categorize_voice") =>
        LET rows == {row \in C12_Table : C12_InRow(call.centroid_mean, row)}
        IN  /\ Cardinality(rows) = 1
            /\ \A row \in rows : ret.brightness = row.brightness
            /\ Cardinality({row \in C12_Table : row.brightness = ret.brightness}) = 1

\* A centroid of exactly 1500 Hz was classified, as balanced.
C12_Witness ==
    /\ Returned("categorize_voice")
    /\ call.centroid_mean = Hz(1500)
    /\ ret.brightness = "balanced"

(***************************************************************************)
(* C13                                                                     *)
(***************************************************************************)

\* The 5000 Hz breathiness bell is in the plan, once, iff the indicator is
\* "high".
C13_BellIffHigh ==
    LET bands == eq_recommendations.eq_bands
        b     == audio_analysis.voice_quality.breathiness_indicator
    IN  /\ (BreathinessAt(bands) # {}) <=> (b = "high")
        /\ Cardinality(BreathinessAt(bands)) <= 1

\* C13: for a recording with samples and a positive sample rate, the
\* breathiness indicator is exactly one of high (mean zero-crossing
\* rate above 0.1), moderate (0.05 to 0.1, both ends included) or low (below
\* 0.05), and the 5000 Hz breathiness bell (gain "-1 to -2", Q 1.5) is in
\* the plan iff the indicator is high.
C13_BreathinessBothEndsIncluded ==
    PlanMade /\ ~InvalidWaveform(waveform) =>
        LET z == locals.zcr_mean
            b == audio_analysis.voice_quality.breathiness_indicator
        IN  /\ b \in {"high", "moderate", "low"}
            /\ (b = "high") <=> (z > 100000)
            /\ (b = "moderate") <=> (50000 <= z /\ z <= 100000)
            /\ (b = "low") <=> (z < 50000)
            /\ C13_BellIffHigh

\* C13 as the code has it: a mean zero-crossing rate of exactly 0.05 is low;
\* moderate is above 0.05 up to and including 0.1.
C13_BreathinessLowerEndExcluded ==
    PlanMade /\ ~InvalidWaveform(waveform) =>
        LET z == locals.zcr_mean
            b == audio_analysis.voice_quality.breathiness_indicator
        IN  /\ b \in {"high", "moderate", "low"}
            /\ (b = "high") <=> (z > 100000)
            /\ (b = "moderate") <=> (50000 < z /\ z <= 100000)
            /\ (b = "low") <=> (z <= 50000)
            /\ C13_BellIffHigh

\* A recording with a mean zero-crossing rate of exactly 0.05 got its plan:
\* the indicator is low and the plan has no breathiness bell.
C13_Witness ==
    /\ PlanMade
    /\ ~InvalidWaveform(waveform)
    /\ locals.zcr_mean = 50000
    /\ audio_analysis.voice_quality.breathiness_indicator = "low"
    /\ BreathinessAt(eq_recommendations.eq_bands) = {}

(***************************************************************************)
(* C14                                                                     *)
(***************************************************************************)

\* generate_pdf.py's band table: the Gain cell of a band's row.
BandTableGain(band) ==
    IF "gain_db" \in DOMAIN band THEN band.gain_db ELSE "N/A"

C14_GainDescriptors == {"+1 to +2", "+2 to +3", "-2 to -4", "-1 to -2", "-1 to -3"}

\* The fields every band has, whatever its type.
C14_CommonFields(band) ==
    /\ {"type", "frequency_hz", "description"} \subseteq DOMAIN band
    /\ DOMAIN band \subseteq {"type", "frequency_hz", "gain_db", "q", "description"}
    /\ band.type \in {"high-pass", "bell", "high-shelf"}
    /\ band.frequency_hz \in Nat
    /\ "gain_db" \in DOMAIN band => band.gain_db \in C14_GainDescriptors

\* C14: every band of eq_bands, of every type including high-pass, carries
\* type, frequency_hz, gain_db (a string descriptor) and description; only q
\* may be absent.
C14_EveryBandHasGain ==
    Returned("generate_eq_recommendations") =>
        \A i \in DOMAIN ret.eq_bands :
            LET band == ret.eq_bands[i]
            IN  /\ C14_CommonFields(band)
                /\ "gain_db" \in DOMAIN band

\* C14 as the code has it: every band carries type, frequency_hz and
\* description; gain_db is carried by every band but the high-pass, whose
\* Gain cell the PDF report fills with "N/A"; q is carried by the bell bands
\* only.
C14_GainButOnHighPass ==
    Returned("generate_eq_recommendations") =>
        \A i \in DOMAIN ret.eq_bands :
            LET band == ret.eq_bands[i]
            IN  /\ C14_CommonFields(band)
                /\ ("gain_db" \in DOMAIN band) <=> (band.type # "high-pass")
                /\ (BandTableGain(band) = "N/A") <=> (band.type = "high-pass")
                /\ ("q" \in DOMAIN band) <=> (band.type = "bell")

\* A plan with a high-pass band, which has no gain_db, a high-shelf band,
\* which has a gain_db and no q, and bell bands, which have both.
C14_Witness ==
    /\ Returned("generate_eq_recommendations")
    /\ \E i \in HighPassAt(ret.eq_bands) : "gain_db" \notin DOMAIN ret.eq_bands[i]
    /\ \E i \in AirAt(ret.eq_bands) :
          "gain_db" \in DOMAIN ret.eq_bands[i] /\ "q" \notin DOMAIN ret.eq_bands[i]
    /\ \E i \in MudAt(ret.eq_bands) :
          "gain_db" \in DOMAIN ret.eq_bands[i] /\ "q" \in DOMAIN ret.eq_bands[i]

(***************************************************************************)
(* C15                                                                     *)
(***************************************************************************)

\* The two lists before the first rule and after each block of rules of
\* generate_eq_recommendations, in the order of the code.
BandRulesTrace(aa) ==
    LET f0   == aa.fundamental_frequency.mean_hz
        vc   == aa.voice_characteristics
        s0   == EmptyPlan
        s1   == LowEndRules(s0, f0, vc.voice_range)
        s2   == PresenceRule(s1, f0)
        s3   == BrightnessRule(s2, vc.brightness)
        s4   == BreathinessRule(s3, aa.voice_quality.breathiness_indicator)
        s5   == MudRule(s4)
    IN  <<s0, s1, s2, s3, s4, s5>>

\* The recommendation the specification pairs with a band.
C15_RecommendationFor(band) ==
    IF IsHighPass(band)
    THEN "Apply high-pass filter at " \o ToString(band.frequency_hz)
           \o " Hz to remove rumble without affecting voice fundamentals"
    ELSE IF IsWarmthBell(band)
    THEN "Consider subtle boost (+1-2 dB) around " \o ToString(band.frequency_hz)
           \o " Hz to add warmth and body"
    ELSE IF IsPresenceBell(band)
    THEN "Boost presence around " \o ToString(band.frequency_hz)
           \o " Hz (+2-3 dB) for clarity and intelligibility"
    ELSE IF IsSibilanceCut(band)
    THEN "Apply de-esser or reduce 5-8 kHz range (-2-4 dB) to control sibilance"
    ELSE IF IsAirShelf(band)
    THEN "Add air and sparkle with a gentle high shelf boost (+2-3 dB) above 10 kHz"
    ELSE IF IsBreathinessBell(band)
    THEN "Consider reducing 4-6 kHz slightly (-1-2 dB) to manage breathiness, or embrace it for intimacy"
    ELSE IF IsMudBell(band)
    THEN "Cut 200-400 Hz range slightly (-1-3 dB) if voice sounds muddy or boxy"
    ELSE "no rule"

\* The two lists have the same length and pair up item by item.
C15_Paired(st) ==
    /\ Len(st.recommendations) = Len(st.eq_bands)
    /\ \A i \in DOMAIN st.eq_bands :
          st.recommendations[i] = C15_RecommendationFor(st.eq_bands[i])

\* st is what the lists were after their first items had been appended.
C15_PrefixOf(st, plan) ==
    /\ Len(st.eq_bands) <= Len(plan.eq_bands)
    /\ Len(st.recommendations) <= Len(plan.recommendations)
    /\ st.eq_bands = SubSeq(plan.eq_bands, 1, Len(st.eq_bands))
    /\ st.recommendations = SubSeq(plan.recommendations, 1, Len(st.recommendations))

\* C15: each rule that fires appends one band and one recommendation
\* together: after every prefix of the rule sequence, and in the returned
\* plan, recommendations and eq_bands have the same length and the i-th
\* recommendation is the one of the rule of the i-th band; each block of
\* rules only appends, at most two pairs; the returned plan has between 2
\* and 6 pairs.
C15_PairedAppends ==
    Returned("generate_eq_recommendations") =>
        LET tr == BandRulesTrace(call.audio_analysis)
        IN  /\ C15_Paired(ret)
            /\ 2 <= Len(ret.eq_bands) /\ Len(ret.eq_bands) <= 6
            /\ tr[Len(tr)].eq_bands = ret.eq_bands
            /\ tr[Len(tr)].recommendations = ret.recommendations
            /\ \A k \in DOMAIN tr : C15_Paired(tr[k]) /\ C15_PrefixOf(tr[k], ret)
            /\ \A k \in 1..(Len(tr) - 1) :
                  /\ C15_PrefixOf(tr[k], tr[k + 1])
                  /\ Len(tr[k + 1].eq_bands) - Len(tr[k].eq_bands) \in 0..2

\* A plan of five pairs: the brightness rule did not fire, the breathiness
\* rule did, and the last pair is the mud rule's.
C15_Witness ==
    /\ Returned("generate_eq_recommendations")
    /\ Len(ret.eq_bands) = 5
    /\ Len(ret.recommendations) = 5
    /\ SibilanceAt(ret.eq_bands) = {} /\ AirAt(ret.eq_bands) = {}
    /\ BreathinessAt(ret.eq_bands) = {4}
    /\ ret.recommendations[4] = C15_RecommendationFor(ret.eq_bands[4])
    /\ IsMudBell(ret.eq_bands[5])

(***************************************************************************)
(* C16                                                                     *)
(***************************************************************************)

\* A stage of main raised (or main did, on a stage's result).
C16_StageRaised ==
    /\ pc = "failed"
    /\ error \in {"LibraryError", "APIError", "JSONDecodeError", "KeyError", "AttributeError"}

\* C16: main's stages run strictly in sequence: accent detection starts only
\* after the audio analysis has returned, EQ generation only after both have
\* returned, the result JSON is written only after all three stages have
\* completed, from their three results, and if a stage raises (or the path
\* does not exist) no result JSON is written.
C16_StagesInSequence ==
    /\ pc \in {"accent", "eq", "write", "done"} => audio_analysis # None
    /\ accent_analysis # None => audio_analysis # None
    /\ pc \in {"eq", "write", "done"} => accent_analysis # None
    /\ eq_recommendations # None => audio_analysis # None /\ accent_analysis # None
    /\ pc \in {"write", "done"} => eq_recommendations # None
    /\ output_file # None =>
          /\ pc = "done"
          /\ audio_analysis # None /\ accent_analysis # None /\ eq_recommendations # None
          /\ output_file = [audio_analysis     |-> audio_analysis,
                            accent_analysis    |-> accent_analysis,
                            eq_recommendations |-> eq_recommendations]
    /\ pc = "done" => output_file # None
    /\ C16_StageRaised \/ pc = "exited" => output_file = None

\* The result JSON has been written, after the three stages.
C16_Witness ==
    /\ pc = "done"
    /\ output_file # None
    /\ output_file.eq_recommendations = eq_recommendations
    /\ Len(eq_recommendations.eq_bands) >= 2
    /\ error = NoError

(***************************************************************************)
(* C17                                                                     *)
(***************************************************************************)

\* C17: whenever the high-pass band is emitted for a mean pitch at or above
\* the pitch tracker's search floor (C2, about 65.4 Hz), its cutoff is
\* strictly below the mean pitch (the unrounded mean and the reported
\* mean_hz alike), and strictly below the centre of the fundamental-warmth
\* bell when that bell is emitted too.
C17_CutoffBelowPitch ==
    PlanMade =>
        LET bands == eq_recommendations.eq_bands
        IN  \A i \in HighPassAt(bands) :
                locals.f0_mean >= pyin_fmin =>
                    /\ Hz(bands[i].frequency_hz) < locals.f0_mean
                    /\ DeciHz(bands[i].frequency_hz)
                          < audio_analysis.fundamental_frequency.mean_hz
                    /\ \A j \in WarmthAt(bands) :
                          bands[i].frequency_hz < bands[j].frequency_hz

\* The lowest mean pitch the tracker can report: cutoff 60 Hz, warmth bell
\* at 65 Hz.
C17_Witness ==
    /\ PlanMade
    /\ locals.f0_mean = pyin_fmin
    /\ \E i \in HighPassAt(eq_recommendations.eq_bands) :
          eq_recommendations.eq_bands[i].frequency_hz = 60
    /\ \E j \in WarmthAt(eq_recommendations.eq_bands) :
          eq_recommendations.eq_bands[j].frequency_hz = 65

====
